---- MODULE Spec2Model ----
(***************************************************************************)
(* Verification model of the commandcore billing integration: the Stripe   *)
(* webhook route (apps/web/app/api/stripe/webhook/route.ts) reconciling    *)
(* the Subscription table of prisma/schema.prisma, the checkout route that *)
(* opens a checkout session and the subscription route that reads the      *)
(* table.                                                                  *)
(*                                                                         *)
(* Every webhook request is served by an async POST invocation.  The       *)
(* invocations interleave at their awaits on the database, so each         *)
(* database operation is one step of the invocation that issued it.        *)
(***************************************************************************)
EXTENDS Integers, FiniteSets, Sequences, TLC

(***************************************************************************)
(* Bounds of the model.                                                    *)
(***************************************************************************)
MaxClock == 1

\* the concurrent invocations of POST
Handlers == {"h1", "h2"}

\* the values Date.now() and the database's now() can return, in milliseconds
Times == 1..MaxClock

(***************************************************************************)
(* JavaScript null / undefined, and an absent numeric field.               *)
(***************************************************************************)
Null == "_null_"
NoTime == -1

(***************************************************************************)
(* The User table.  No code of the repository writes it (users are made    *)
(* by the auth library on sign-in), so it is a fixed table here.           *)
(***************************************************************************)
UserTable == { [id |-> "u1", email |-> "a@b.com"], [id |-> "u2", email |-> "c@d.com"] }

Emails == {Null, "a@b.com", "x@y.com"}
Customers == {Null, "cus_1"}
SubIds == {"sub_1"}
Plans == {Null, "pro", "enterprise"}
ExpiresAt == {NoTime, 1}
SubStatuses == {Null, "canceled", "trialing"}
PeriodEnds == {NoTime, 2}

CHECKOUT == "checkout.session.completed"
UPDATED == "customer.subscription.updated"
DELETED == "customer.subscription.deleted"
UNHANDLED_TYPE == "invoice.paid"

(***************************************************************************)
(* Event payloads.  One record shape for all event types; the fields an    *)
(* event type does not have are Null / NoTime.                             *)
(*   checkout session : customer, customer_email, subscription,            *)
(*                      plan (= metadata.plan), expires_at                 *)
(*   subscription     : id, status, period_end                             *)
(*                      (= items.data[0].current_period_end)               *)
(***************************************************************************)
MkEvent(t, cus, em, sub, pl, ex, id, st, pe) ==
    [type |-> t, customer |-> cus, customer_email |-> em, subscription |-> sub,
     plan |-> pl, expires_at |-> ex, id |-> id, status |-> st, period_end |-> pe]

\* the checkout events that pass or fail the guards, one plan and no expiry
GuardCheckoutEvents ==
    { MkEvent(CHECKOUT, c, e, "sub_1", "pro", NoTime, Null, Null, NoTime) :
        c \in Customers, e \in Emails }

\* the checkout events of an existing user, over the fields the upsert writes
UpsertCheckoutEvents ==
    { MkEvent(CHECKOUT, "cus_1", "a@b.com", "sub_1", p, NoTime, Null, Null, NoTime) :
        p \in Plans }
    \cup { MkEvent(CHECKOUT, "cus_1", "a@b.com", "sub_1", "pro", x, Null, Null, NoTime) :
             x \in ExpiresAt }
    \cup { MkEvent(CHECKOUT, "cus_1", "a@b.com", Null, "pro", NoTime, Null, Null, NoTime) }

CheckoutEvents == GuardCheckoutEvents \cup UpsertCheckoutEvents

SubscriptionEvents ==
    { MkEvent(UPDATED, Null, Null, Null, Null, NoTime, i, s, 2) :
        i \in SubIds, s \in SubStatuses }
    \cup { MkEvent(DELETED, Null, Null, Null, Null, NoTime, i, "canceled", p) :
             i \in SubIds, p \in PeriodEnds }

OtherEvents == { MkEvent(UNHANDLED_TYPE, Null, Null, Null, Null, NoTime, Null, Null, NoTime) }

Events == CheckoutEvents \cup SubscriptionEvents \cup OtherEvents

NoEvent == MkEvent(Null, Null, Null, Null, Null, NoTime, Null, Null, NoTime)

(***************************************************************************)
(* The stripe-signature header: absent, present but not verifying, or      *)
(* verifying against the webhook secret.                                   *)
(***************************************************************************)
Signatures == {Null, "bad", "good"}

VARIABLES
    envOK,          \* STRIPE_SECRET_KEY and STRIPE_WEBHOOK_SECRET are set
    subscriptions,  \* the Subscription table: a set of rows
    nextId,         \* source of fresh row ids (cuid())
    hs,             \* the POST invocations: hs[h] is invocation slot h
    provider,       \* history: status of the provider's latest event, per id
    stripeSecret,   \* STRIPE_SECRET_KEY is set
    priceEnv,       \* the plans whose STRIPE_PRICE_<PLAN> is set
    api,            \* the invocation of the checkout or the subscription route
    checkoutSessions, \* history: the checkout sessions the provider created
    agents,         \* AgentService.agents: agent key -> Agent
    runs,           \* the runAgent calls: runs[c] is call slot c
    metrics,        \* FeedbackService.metrics: product id -> ProductMetrics
    reply           \* the latest answer of FeedbackService

\* the state of the two routes that never write the database
apiVars == <<stripeSecret, priceEnv, api, checkoutSessions>>

\* the state of the billing integration
billingVars ==
    <<envOK, subscriptions, nextId, hs, provider, stripeSecret, priceEnv, api,
      checkoutSessions>>

\* the in-memory state of the services of the REST API (apps/api)
serviceVars == <<agents, runs, metrics, reply>>

vars ==
    <<envOK, subscriptions, nextId, hs, provider, stripeSecret, priceEnv, api,
      checkoutSessions, agents, runs, metrics, reply>>

(***************************************************************************)
(* JavaScript helpers.                                                     *)
(***************************************************************************)
\* !x on a string-or-null value
Falsy(x) == x = Null \/ x = ""

\* x ?? d
Coalesce(x, d) == IF x = Null THEN d ELSE x

\* a period end that is always the current time
CheckoutPeriodEndAlwaysNow(ex, now) == now

\* new Date(((session.expires_at ?? 0) * 1000) || Date.now())
CheckoutPeriodEnd(ex, now) ==
    LET ms == (IF ex = NoTime THEN 0 ELSE ex) * 1000
    IN  IF ms = 0 THEN now ELSE ms

\* the period end taken as milliseconds, without the conversion from seconds
SubscriptionPeriodEndSeconds(pe) == IF pe = NoTime THEN 0 ELSE pe

\* new Date(((sub.items?.data?.[0]?.current_period_end ?? 0) as number) * 1000)
SubscriptionPeriodEnd(pe) == (IF pe = NoTime THEN 0 ELSE pe) * 1000

(***************************************************************************)
(* HTTP responses.                                                         *)
(***************************************************************************)
Resp(s, b) == [status |-> s, body |-> b]
NoResp == Resp(0, Null)
Received == Resp(200, "received")
Misconfigured == Resp(500, "Server misconfiguration")
MissingSignature == Resp(400, "Missing signature")
WebhookError == Resp(400, "Webhook Error")
\* an exception that leaves POST: the framework answers 500
Unhandled == Resp(500, "Internal Server Error")

(***************************************************************************)
(* stripe.webhooks.constructEvent: succeeds only for a verifying header.   *)
(***************************************************************************)
\* a handler that parses the payload without verifying it
ConstructEventUnverified(sig) == TRUE


ConstructEventOK(sig) == sig = "good"

(***************************************************************************)
(* Storage operations on the Subscription table.                           *)
(***************************************************************************)
RowsOf(tbl, sid) == { r \in tbl : r.stripeSubscriptionId = sid }

\* a lookup without its where clause
FindUserAny(email) == UserTable

\* prisma.user.findFirst({ where: { email } })
FindUser(email) == { u \in UserTable : u.email = email }

\* a schema without the @unique attribute
UniqueViolationOff(tbl, row) == FALSE

\* stripeSubscriptionId String @unique
UniqueViolation(tbl, row) == RowsOf(tbl, row.stripeSubscriptionId) # {}

\* an update path that leaves the status as it was
UpsertUpdateKeepStatus(tbl, sid, pl, cpe) ==
    { IF r.stripeSubscriptionId = sid
        THEN [r EXCEPT !.plan = pl, !.currentPeriodEnd = cpe]
        ELSE r : r \in tbl }

\* an update path that writes a new version of the row beside the old one
UpsertUpdateAppend(tbl, sid, pl, cpe) ==
    tbl \cup { [r EXCEPT !.id = r.id + Cardinality(tbl), !.status = "active", !.plan = pl,
                         !.currentPeriodEnd = cpe] : r \in RowsOf(tbl, sid) }

\* an update path that also clears the owner and the customer of the row
UpsertUpdateDropsOwner(tbl, sid, pl, cpe) ==
    { IF r.stripeSubscriptionId = sid
        THEN [r EXCEPT !.status = "active", !.plan = pl, !.currentPeriodEnd = cpe,
                       !.userId = Null, !.stripeCustomerId = Null]
        ELSE r : r \in tbl }

\* an update path that leaves a canceled row alone
UpsertUpdateUnlessCanceled(tbl, sid, pl, cpe) ==
    { IF r.stripeSubscriptionId = sid /\ r.status # "canceled"
        THEN [r EXCEPT !.status = "active", !.plan = pl, !.currentPeriodEnd = cpe]
        ELSE r : r \in tbl }

\* update path of upsert: where { stripeSubscriptionId }, data update
UpsertUpdate(tbl, sid, pl, cpe) ==
    { IF r.stripeSubscriptionId = sid
        THEN [r EXCEPT !.status = "active", !.plan = pl, !.currentPeriodEnd = cpe]
        ELSE r : r \in tbl }

\* create data with the customer id and the subscription id exchanged
UpsertCreateSwapped(rid, uid, pl, cus, sid, cpe, created) ==
    [id |-> rid, userId |-> uid, plan |-> pl, status |-> "active",
     stripeCustomerId |-> sid, stripeSubscriptionId |-> cus,
     currentPeriodEnd |-> cpe, createdAt |-> created]

\* create path of upsert: the row of the create data
UpsertCreate(rid, uid, pl, cus, sid, cpe, created) ==
    [id |-> rid, userId |-> uid, plan |-> pl, status |-> "active",
     stripeCustomerId |-> cus, stripeSubscriptionId |-> sid,
     currentPeriodEnd |-> cpe, createdAt |-> created]

\* an updateMany without its where clause
UpdateManyRowsEverywhere(tbl, sid, st, cpe) ==
    { [r EXCEPT !.status = st, !.currentPeriodEnd = cpe] : r \in tbl }

\* an upsert in place of updateMany: a row is made when none matches
UpdateManyRowsOrCreate(tbl, sid, st, cpe) ==
    IF RowsOf(tbl, sid) = {}
      THEN tbl \cup { [id |-> Cardinality(tbl) + 1, userId |-> Null, plan |-> "pro",
                       status |-> st, stripeCustomerId |-> Null,
                       stripeSubscriptionId |-> sid, currentPeriodEnd |-> cpe,
                       createdAt |-> cpe] }
      ELSE { IF r.stripeSubscriptionId = sid
               THEN [r EXCEPT !.status = st, !.currentPeriodEnd = cpe]
               ELSE r : r \in tbl }

\* prisma.subscription.updateMany({ where: { stripeSubscriptionId }, data })
UpdateManyRows(tbl, sid, st, cpe) ==
    { IF r.stripeSubscriptionId = sid
        THEN [r EXCEPT !.status = st, !.currentPeriodEnd = cpe]
        ELSE r : r \in tbl }

(***************************************************************************)
(* An invocation slot.  pc is the await the invocation is suspended at:    *)
(*   idle         no request in this slot                                  *)
(*   findUser     await prisma.user.findFirst                              *)
(*   upsert       await prisma.subscription.upsert, before its lookup      *)
(*   upsertWrite  the same upsert, between its lookup and its write        *)
(*   updateMany   await prisma.subscription.updateMany                     *)
(*   returning    POST is returning resp (or has thrown: resp is the 500   *)
(*                of the framework)                                        *)
(* fault is the storage call of this invocation that failed, if any.       *)
(***************************************************************************)
IdleHandler ==
    [pc |-> "idle", sig |-> Null, ev |-> NoEvent, user |-> Null,
     found |-> FALSE, fault |-> Null, resp |-> NoResp]

\* const subscriptionId = (session.subscription as string) ?? ""
SubscriptionIdOf(ev) == Coalesce(ev.subscription, "")

\* const plan = session.metadata?.plan ?? "pro"
PlanOf(ev) == Coalesce(ev.plan, "pro")

\* status: sub.status ?? "unknown"
StatusOf(ev) == Coalesce(ev.status, "unknown")

\* if (!session.customer || !session.customer_email) break
CheckoutGuard(ev) == ~Falsy(ev.customer) /\ ~Falsy(ev.customer_email)

(***************************************************************************)
(* The checkout route (apps/web/app/api/stripe/checkout/route.ts) and the  *)
(* subscription route (apps/web/app/api/subscription/route.ts).            *)
(*                                                                         *)
(* A request body of the checkout route is the value of body.plan (Null    *)
(* when the body has no plan), or a body req.json() cannot parse.          *)
(***************************************************************************)
MalformedBody == "_malformed_"
PlanNames == {Null, "pro", "enterprise", "basic", "constructor"}
Bodies == PlanNames \cup {MalformedBody}

\* what getServerSession returns: null, a session whose user has no email,
\* or the session of the user with an email
NoSession == "_nosession_"
Sessions == {NoSession, Null, "a@b.com", "c@d.com"}

\* session?.user?.email
SessionEmail(session) == IF session = NoSession THEN Null ELSE session

\* the environments of priceMap: which of the two price variables are set
PriceEnvs == { {"pro", "enterprise"}, {"pro"} }

\* the value of STRIPE_PRICE_<PLAN> when it is set
PriceIdOf(plan) == IF plan = "pro" THEN "price_pro" ELSE "price_enterprise"

\* property names every object literal inherits from Object.prototype
ObjectPrototypeKeys ==
    {"constructor", "toString", "valueOf", "hasOwnProperty", "isPrototypeOf",
     "propertyIsEnumerable", "toLocaleString", "__proto__"}

(***************************************************************************)
(* priceMap[plan]: priceMap is an object literal with the own keys pro and *)
(* enterprise, so a lookup of any other key goes on to Object.prototype    *)
(* and yields the inherited member (a function or an object, neither a     *)
(* price id nor falsy), and undefined only when that has none either.      *)
(***************************************************************************)
PriceMapGet(env, plan) ==
    IF plan \in {"pro", "enterprise"}
      THEN IF plan \in env THEN PriceIdOf(plan) ELSE Null
    ELSE IF plan \in ObjectPrototypeKeys
      THEN "[inherited]"
    ELSE Null

(***************************************************************************)
(* The responses of the two routes: NextResponse.json(body, { status }).   *)
(* One record shape for all bodies; a key the body does not have is Null / *)
(* NoTime.                                                                 *)
(***************************************************************************)
Json(s, err, url, pl, st, cpe) ==
    [status |-> s, error |-> err, url |-> url, plan |-> pl, subStatus |-> st,
     currentPeriodEnd |-> cpe]
JsonError(s, msg) == Json(s, msg, Null, Null, Null, NoTime)
NoJson == Json(0, Null, Null, Null, Null, NoTime)
CheckoutMisconfigured == JsonError(500, "Server misconfiguration")
InvalidPlan == JsonError(400, "Invalid plan")
StripeError == JsonError(500, "err.message")
CheckoutUrl == Json(200, Null, "checkoutSession.url", Null, Null, NoTime)
Unauthorized == JsonError(401, "Unauthorized")
FreePlan == Json(200, Null, Null, "free", "none", NoTime)
SubscriptionJson(row) == Json(200, Null, Null, row.plan, row.status, row.currentPeriodEnd)
\* an exception that leaves the route: the framework answers 500 without a body
ApiUnhandled == Json(500, Null, Null, Null, Null, NoTime)

(***************************************************************************)
(* The calls a route makes to the outside: the session lookup, the payment *)
(* provider, the database.  One record shape; price, customer_email and    *)
(* plan are the arguments of the provider call, email is the where clause  *)
(* of the query.                                                           *)
(***************************************************************************)
Call(fn, price, em, pl) == [fn |-> fn, price |-> price, customer_email |-> em, plan |-> pl]
GetServerSession == Call("getServerSession", Null, Null, Null)
\* a call that falls back to a default customer email
SessionsCreateDefaultEmail(price, session, pl) ==
    Call("stripe.checkout.sessions.create", price,
         IF Falsy(SessionEmail(session)) THEN "a@b.com" ELSE SessionEmail(session), pl)

\* a call that never carries the customer email
SessionsCreateNoEmail(price, session, pl) ==
    Call("stripe.checkout.sessions.create", price, Null, pl)

\* ...(session?.user?.email ? { customer_email: session.user.email } : {})
SessionsCreate(price, session, pl) ==
    Call("stripe.checkout.sessions.create", price,
         IF Falsy(SessionEmail(session)) THEN Null ELSE SessionEmail(session), pl)
FindFirstCall(em) == Call("prisma.subscription.findFirst", Null, em, Null)

\* the invocation of a route: the request it serves, the calls it made and
\* its response
ApiInvocation(route, body, session, calls, resp) ==
    [pc |-> "returning", route |-> route, body |-> body, session |-> session,
     calls |-> calls, resp |-> resp]
IdleApi ==
    [pc |-> "idle", route |-> Null, body |-> Null, session |-> NoSession,
     calls |-> <<>>, resp |-> NoJson]

(***************************************************************************)
(* FeedbackService (apps/api/src/services/feedbackService.ts): the map of  *)
(* the tracked products.  A field of the Partial<ProductMetrics> of a      *)
(* request that the request does not supply is Absent.  churnRate is kept  *)
(* in hundredths, so that the 0.1 of the code is 10.                       *)
(***************************************************************************)
Products == {"p1", "p2"}
Absent == -1
MetricFields == {"visitors", "conversions", "revenue", "churnRate"}

\* the values a request supplies for the fields, 0 among them
Visitors == {0, 5}
Conversions == {0, 10}
Revenues == {0, 100}
ChurnRates == {0, 10, 11}

\* the values of field f
FieldValues(f) ==
    CASE f = "visitors" -> Visitors
      [] f = "conversions" -> Conversions
      [] f = "revenue" -> Revenues
      [] f = "churnRate" -> ChurnRates

NoPartial ==
    [visitors |-> Absent, conversions |-> Absent, revenue |-> Absent,
     churnRate |-> Absent]

\* the metrics of the body of POST /track: none of the fields, one field with
\* each of its values, or the four fields together (all 0, and a product that
\* breaches no threshold)
PartialMetrics ==
    {NoPartial}
    \cup UNION { { [NoPartial EXCEPT ![f] = v] : v \in FieldValues(f) } : f \in MetricFields }
    \cup { [visitors |-> 0, conversions |-> 0, revenue |-> 0, churnRate |-> 0],
           [visitors |-> 5, conversions |-> 10, revenue |-> 100, churnRate |-> 10] }

\* a || b of JavaScript on numbers and undefined: a unless a is falsy
FalsyNumber(a) == a = Absent \/ a = 0
Or(a, b) == IF FalsyNumber(a) THEN b ELSE a

\* existing?.field
ExistingField(mp, productId, f) ==
    IF productId \in DOMAIN mp THEN mp[productId][f] ELSE Absent

\* the updatedMetrics of trackMetrics
UpdatedMetrics(mp, productId, m, now) ==
    [productId |-> productId,
     visitors |-> Or(Or(m.visitors, ExistingField(mp, productId, "visitors")), 0),
     conversions |-> Or(Or(m.conversions, ExistingField(mp, productId, "conversions")), 0),
     revenue |-> Or(Or(m.revenue, ExistingField(mp, productId, "revenue")), 0),
     churnRate |-> Or(Or(m.churnRate, ExistingField(mp, productId, "churnRate")), 0),
     lastUpdated |-> now]

\* this.metrics.set(productId, updatedMetrics)
MapSet(mp, k, v) == [x \in DOMAIN mp \cup {k} |-> IF x = k THEN v ELSE mp[x]]

\* the thresholds of getProductAnalytics
MinConversions == 10
MaxChurnRate == 10
MinRevenue == 100

LowConversions == "Low conversions"
HighChurn == "High churn"
LowRevenue == "Low revenue"

\* a churn check that takes the threshold itself as a breach
AnalyticsChecksInclusive(pm) ==
    (IF pm.conversions < MinConversions THEN <<LowConversions>> ELSE << >>)
    \o (IF pm.churnRate >= MaxChurnRate THEN <<HighChurn>> ELSE << >>)
    \o (IF pm.revenue < MinRevenue THEN <<LowRevenue>> ELSE << >>)

\* the checks of getProductAnalytics that fire, in the order of the code: each
\* pushes one recommendation, sets shouldIterate and overwrites iterationReason
AnalyticsChecks(pm) ==
    (IF pm.conversions < MinConversions THEN <<LowConversions>> ELSE << >>)
    \o (IF pm.churnRate > MaxChurnRate THEN <<HighChurn>> ELSE << >>)
    \o (IF pm.revenue < MinRevenue THEN <<LowRevenue>> ELSE << >>)

ShouldIterate(pm) == AnalyticsChecks(pm) # << >>
IterationReason(pm) ==
    IF AnalyticsChecks(pm) = << >> THEN Null
    ELSE AnalyticsChecks(pm)[Len(AnalyticsChecks(pm))]

\* what a route of feedbackRouter answered last: the operation, its product
\* and input, the HTTP status, and of the analytics the checks that fired,
\* shouldIterate (for /iterate the success of the iteration) and the reason
Reply(op, productId, input, status, checks, success, reason) ==
    [op |-> op, productId |-> productId, input |-> input, status |-> status,
     recommendations |-> checks, success |-> success, reason |-> reason]

\* FeedbackService: no product tracked, and no answer yet
NoMetrics == << >>
NoReply == Reply(Null, Null, NoPartial, 0, << >>, FALSE, Null)

(***************************************************************************)
(* AgentService (apps/api/src/services/agentService.ts): the map of the    *)
(* registered agents and the runAgent calls in flight.                     *)
(***************************************************************************)
\* the keys the constructor registers
AgentKeys == {"ideaSpider", "productGenerator", "seoBot", "listingBot"}

\* the agentName values of the requests: registered keys and one that is not
AgentNames == AgentKeys \cup {"unknownBot"}

\* the runAgent calls that can be in flight together
Calls == {"c1", "c2"}

\* the Agent record the constructor sets for key k
NewAgent(k) == [name |-> k, status |-> "idle", lastRun |-> NoTime, result |-> Null]

\* what the agent function of key k resolves to
ResultOf(k) ==
    IF k = "ideaSpider" THEN "runIdeaSpider()"
    ELSE IF k = "productGenerator" THEN "Product generation started"
    ELSE IF k = "seoBot" THEN "SEO content generated"
    ELSE "Product submitted to directories"

\* whether the agent function of key k can reject: runIdeaSpider imports and
\* runs the spider, the other three return a literal
CanReject(k) == k = "ideaSpider"

\* a runAgent call: pc is idle (no call in this slot), dispatched (suspended
\* at the await of the agent function) or settled (resolved or rejected)
IdleCall == [pc |-> "idle", agentName |-> Null, outcome |-> Null, value |-> Null]

\* getAgentStatus: this.agents.get(agentName) || null
NoAgent == [name |-> Null, status |-> Null, lastRun |-> NoTime, result |-> Null]
GetAgentStatus(ag, agentName) ==
    IF agentName \in DOMAIN ag THEN ag[agentName] ELSE NoAgent

\* listAgents: Array.from(this.agents.values())
ListAgents(ag) == { ag[k] : k \in DOMAIN ag }

(***************************************************************************)
(* POST of the checkout route, from the request to the response.  It reads *)
(* and writes no table, so its awaits are not split into steps.            *)
(* getServerSession does not throw: it answers null when the session       *)
(* cannot be read.  providerOK is whether the payment provider creates the *)
(* checkout session; it creates none for a price that is not a price id.   *)
(***************************************************************************)
CheckoutPOST(secret, env, body, session, providerOK) ==
    LET priceId == PriceMapGet(env, body)
        inv(calls, resp) == ApiInvocation("checkout", body, session, calls, resp)
    IN  IF ~secret
          THEN inv(<<>>, CheckoutMisconfigured)
        ELSE IF body = MalformedBody
          THEN inv(<<>>, ApiUnhandled)
        ELSE IF Falsy(priceId)
          THEN inv(<<>>, InvalidPlan)
        ELSE inv(<<GetServerSession, SessionsCreate(priceId, session, body)>>,
                 IF providerOK /\ priceId = PriceIdOf(body) THEN CheckoutUrl ELSE StripeError)

(***************************************************************************)
(* prisma.subscription.findFirst({ where: { user: { email }, status: { in: *)
(* ["active", "trialing"] } } }): the rows the query can return.  It has   *)
(* no orderBy, so which of several matching rows comes back is up to the   *)
(* database.                                                               *)
(***************************************************************************)
\* a query without the relation filter on the owner
FindFirstMatchesAnyOwner(tbl, em) ==
    { r \in tbl : r.status \in {"active", "trialing"} }

\* a query without the status filter
FindFirstMatchesAnyStatus(tbl, em) ==
    { r \in tbl : \E u \in UserTable : u.id = r.userId /\ u.email = em }

FindFirstMatches(tbl, em) ==
    { r \in tbl : /\ \E u \in UserTable : u.id = r.userId /\ u.email = em
                  /\ r.status \in {"active", "trialing"} }

Init ==
    /\ envOK \in BOOLEAN
    /\ subscriptions = {}
    /\ nextId = 1
    /\ hs = [h \in Handlers |-> IdleHandler]
    /\ provider = [s \in SubIds |-> "none"]
    /\ stripeSecret \in BOOLEAN
    /\ envOK => stripeSecret
    /\ priceEnv = {"pro", "enterprise"}
    /\ api = IdleApi
    /\ checkoutSessions = {}
    /\ agents = [k \in AgentKeys |-> NewAgent(k)]
    /\ runs = [c \in Calls |-> IdleCall]
    /\ metrics = NoMetrics
    /\ reply = NoReply

(***************************************************************************)
(* The subscription and the status a provider event is about: a completed  *)
(* checkout means an active subscription.                                  *)
(***************************************************************************)
ProviderSid(ev) == IF ev.type = CHECKOUT THEN ev.subscription ELSE ev.id
ProviderStatus(ev) == IF ev.type = CHECKOUT THEN "active" ELSE StatusOf(ev)

(***************************************************************************)
(* POST up to its first storage call: configuration check, signature       *)
(* header, constructEvent, the switch and the checkout guards.             *)
(***************************************************************************)
\* a switch whose default branch falls into the update of the subscription
DispatchDefaultUpdates(ev) ==
    IF ev.type = CHECKOUT
      THEN IF CheckoutGuard(ev) THEN "findUser" ELSE "returning"
      ELSE "updateMany"

Dispatch(ev) ==
    IF ev.type = CHECKOUT
      THEN IF CheckoutGuard(ev) THEN "findUser" ELSE "returning"
      ELSE IF ev.type \in {UPDATED, DELETED} THEN "updateMany" ELSE "returning"

\* a handler without the configuration check: constructEvent is tried at once
AcceptNoConfigCheck(sig, ev) ==
    IF sig = Null
      THEN [IdleHandler EXCEPT !.pc = "returning", !.sig = sig, !.resp = MissingSignature]
    ELSE IF ~envOK \/ ~ConstructEventOK(sig)
      THEN [IdleHandler EXCEPT !.pc = "returning", !.sig = sig, !.resp = WebhookError]
    ELSE [IdleHandler EXCEPT !.pc = Dispatch(ev), !.sig = sig, !.ev = ev,
                             !.resp = IF Dispatch(ev) = "returning" THEN Received ELSE NoResp]

Accept(sig, ev) ==
    IF ~envOK
      THEN [IdleHandler EXCEPT !.pc = "returning", !.sig = sig, !.resp = Misconfigured]
    ELSE IF sig = Null
      THEN [IdleHandler EXCEPT !.pc = "returning", !.sig = sig, !.resp = MissingSignature]
    ELSE IF ~ConstructEventOK(sig)
      THEN [IdleHandler EXCEPT !.pc = "returning", !.sig = sig, !.resp = WebhookError]
    ELSE [IdleHandler EXCEPT !.pc = Dispatch(ev), !.sig = sig, !.ev = ev,
                             !.resp = IF Dispatch(ev) = "returning" THEN Received ELSE NoResp]

Receive(h, sig, ev) ==
    /\ hs[h].pc = "idle"
    /\ hs' = [hs EXCEPT ![h] = Accept(sig, ev)]
    /\ UNCHANGED <<envOK, subscriptions, nextId, provider>>
    /\ UNCHANGED apiVars
    /\ UNCHANGED serviceVars

(***************************************************************************)
(* The same request seen from the provider: the provider emits the event   *)
(* and delivers it at once, signed.  provider keeps the status its latest  *)
(* event carries for each subscription id.  The invocations still overlap, *)
(* so events emitted in one order can reach the table in another.          *)
(***************************************************************************)
Emit(h, ev) ==
    /\ hs[h].pc = "idle"
    /\ envOK
    /\ hs' = [hs EXCEPT ![h] = Accept("good", ev)]
    /\ provider' = IF ev.type \in {CHECKOUT, UPDATED, DELETED} /\ ProviderSid(ev) \in SubIds
                     THEN [provider EXCEPT ![ProviderSid(ev)] = ProviderStatus(ev)]
                     ELSE provider
    /\ UNCHANGED <<envOK, subscriptions, nextId>>
    /\ UNCHANGED apiVars
    /\ UNCHANGED serviceVars

(***************************************************************************)
(* Every storage step takes ok: whether the database serves the call.  A   *)
(* call that is not served throws in the invocation that made it.          *)
(*                                                                         *)
(* await prisma.user.findFirst: outside any try, so a storage failure      *)
(* leaves POST as an exception.                                            *)
(***************************************************************************)
FindUserStep(h, ok) ==
    /\ hs[h].pc = "findUser"
    /\ LET us == FindUser(hs[h].ev.customer_email)
       IN  hs' = [hs EXCEPT ![h] =
               IF ~ok
                 THEN [@ EXCEPT !.pc = "returning", !.fault = "findUser", !.resp = Unhandled]
               ELSE IF us = {}
                 THEN [@ EXCEPT !.pc = "returning", !.resp = Received]
               ELSE [@ EXCEPT !.pc = "upsert", !.user = (CHOOSE u \in us : TRUE).id]]
    /\ UNCHANGED <<envOK, subscriptions, nextId, provider>>
    /\ UNCHANGED apiVars
    /\ UNCHANGED serviceVars

\* a catch block that logs and rethrows
CatchUpsertRethrow(l, f) == [l EXCEPT !.pc = "returning", !.fault = f, !.resp = Unhandled]

(***************************************************************************)
(* catch (e) { console.error("Failed to upsert subscription", e) }: the    *)
(* invocation l goes on to the acknowledgment; f is what was thrown.       *)
(***************************************************************************)
CatchUpsert(l, f) == [l EXCEPT !.pc = "returning", !.fault = f, !.resp = Received]

(***************************************************************************)
(* prisma.subscription.upsert, inside try/catch.  The lookup by the unique *)
(* key and the write are two storage steps; a native INSERT .. ON CONFLICT *)
(* is the run in which they are adjacent.                                  *)
(***************************************************************************)
UpsertFind(h, ok) ==
    /\ hs[h].pc = "upsert"
    /\ hs' = [hs EXCEPT ![h] =
               IF ~ok
                 THEN CatchUpsert(@, "upsert")
                 ELSE [@ EXCEPT !.pc = "upsertWrite",
                                !.found = RowsOf(subscriptions, SubscriptionIdOf(hs[h].ev)) # {}]]
    /\ UNCHANGED <<envOK, subscriptions, nextId, provider>>
    /\ UNCHANGED apiVars
    /\ UNCHANGED serviceVars

UpsertWrite(h, ok, now, created) ==
    /\ hs[h].pc = "upsertWrite"
    /\ LET ev  == hs[h].ev
           sid == SubscriptionIdOf(ev)
           cpe == CheckoutPeriodEnd(ev.expires_at, now)
           new == UpsertCreate(nextId, hs[h].user, PlanOf(ev), ev.customer, sid, cpe, created)
       IN  IF ~ok
             THEN /\ hs' = [hs EXCEPT ![h] = CatchUpsert(@, "upsert")]
                  /\ UNCHANGED <<subscriptions, nextId>>
           ELSE IF hs[h].found
             THEN /\ subscriptions' = UpsertUpdate(subscriptions, sid, PlanOf(ev), cpe)
                  /\ hs' = [hs EXCEPT ![h] = [@ EXCEPT !.pc = "returning", !.resp = Received]]
                  /\ UNCHANGED nextId
           ELSE IF UniqueViolation(subscriptions, new)
             THEN /\ hs' = [hs EXCEPT ![h] = CatchUpsert(@, "unique")]
                  /\ UNCHANGED <<subscriptions, nextId>>
           ELSE /\ subscriptions' = subscriptions \cup {new}
                /\ nextId' = nextId + 1
                /\ hs' = [hs EXCEPT ![h] = [@ EXCEPT !.pc = "returning", !.resp = Received]]
    /\ UNCHANGED <<envOK, provider>>
    /\ UNCHANGED apiVars
    /\ UNCHANGED serviceVars

(***************************************************************************)
(* await prisma.subscription.updateMany: outside any try.                  *)
(***************************************************************************)
UpdateMany(h, ok) ==
    /\ hs[h].pc = "updateMany"
    /\ LET ev == hs[h].ev
       IN  IF ~ok
             THEN /\ hs' = [hs EXCEPT ![h] =
                              [@ EXCEPT !.pc = "returning", !.fault = "updateMany",
                                        !.resp = Unhandled]]
                  /\ UNCHANGED subscriptions
             ELSE /\ subscriptions' = UpdateManyRows(subscriptions, ev.id, StatusOf(ev),
                                                     SubscriptionPeriodEnd(ev.period_end))
                  /\ hs' = [hs EXCEPT ![h] = [@ EXCEPT !.pc = "returning", !.resp = Received]]
    /\ UNCHANGED <<envOK, nextId, provider>>
    /\ UNCHANGED apiVars
    /\ UNCHANGED serviceVars

(***************************************************************************)
(* The response leaves: return NextResponse.json(..), or the framework's   *)
(* answer to the exception.  The slot is free for the next request.        *)
(***************************************************************************)
Respond(h) ==
    /\ hs[h].pc = "returning"
    /\ hs' = [hs EXCEPT ![h] = IdleHandler]
    /\ UNCHANGED <<envOK, subscriptions, nextId, provider>>
    /\ UNCHANGED apiVars
    /\ UNCHANGED serviceVars

Next ==
    \/ \E h \in Handlers, sig \in Signatures, ev \in Events : Receive(h, sig, ev)
    \/ \E h \in Handlers, ok \in BOOLEAN : FindUserStep(h, ok)
    \/ \E h \in Handlers, ok \in BOOLEAN : UpsertFind(h, ok)
    \/ \E h \in Handlers, ok \in BOOLEAN, now \in Times, created \in Times :
          UpsertWrite(h, ok, now, created)
    \/ \E h \in Handlers, ok \in BOOLEAN : UpdateMany(h, ok)
    \/ \E h \in Handlers : Respond(h)

Spec == Init /\ [][Next]_vars

(***************************************************************************)
(* The webhook driven by the provider alone over a storage that serves     *)
(* every call: every request is an event the provider emitted.             *)
(***************************************************************************)
NextProvider ==
    \/ \E h \in Handlers, ev \in Events : Emit(h, ev)
    \/ \E h \in Handlers : FindUserStep(h, TRUE)
    \/ \E h \in Handlers : UpsertFind(h, TRUE)
    \/ \E h \in Handlers, now \in Times, created \in Times : UpsertWrite(h, TRUE, now, created)
    \/ \E h \in Handlers : UpdateMany(h, TRUE)
    \/ \E h \in Handlers : Respond(h)

SpecProvider == Init /\ [][NextProvider]_vars

(***************************************************************************)
(* The web application: the checkout route, the subscription route and the *)
(* webhook over one database.                                              *)
(*                                                                         *)
(* The events of this specification: two checkouts of the user a@b.com,    *)
(* for two subscriptions, one checkout of the user c@d.com, and the        *)
(* provider's updates of the first subscription.                           *)
(***************************************************************************)
ApiEvents ==
    { MkEvent(CHECKOUT, "cus_1", "a@b.com", "sub_1", "pro", NoTime, Null, Null, NoTime),
      MkEvent(CHECKOUT, "cus_1", "a@b.com", "sub_2", "enterprise", NoTime, Null, Null, NoTime),
      MkEvent(CHECKOUT, "cus_2", "c@d.com", "sub_3", "pro", NoTime, Null, Null, NoTime),
      MkEvent(UPDATED, Null, Null, Null, Null, NoTime, "sub_1", "trialing", 2),
      MkEvent(DELETED, Null, Null, Null, Null, NoTime, "sub_1", "canceled", 2) }

\* the webhook invocations of this specification
ApiHandlers == {"h1"}

\* a checkout route that records a pending subscription of its own
CheckoutCreatesRow(body, session, providerOK) ==
    /\ api.pc = "idle"
    /\ api' = CheckoutPOST(stripeSecret, priceEnv, body, session, providerOK)
    /\ subscriptions' =
          IF api'.resp = CheckoutUrl
            THEN subscriptions \cup
                   { UpsertCreate(nextId, Null, body, Null, "pending", 0, 0) }
            ELSE subscriptions
    /\ nextId' = nextId + 1
    /\ UNCHANGED <<envOK, hs, provider, stripeSecret, priceEnv, checkoutSessions>>
    /\ UNCHANGED serviceVars

\* POST /api/stripe/checkout
Checkout(body, session, providerOK) ==
    /\ api.pc = "idle"
    /\ api' = CheckoutPOST(stripeSecret, priceEnv, body, session, providerOK)
    /\ UNCHANGED <<envOK, subscriptions, nextId, hs, provider, stripeSecret, priceEnv>>
    /\ UNCHANGED checkoutSessions
    /\ UNCHANGED serviceVars

(***************************************************************************)
(* GET /api/subscription.  Its one database call is a read, so the whole   *)
(* invocation is one step, taken when the query runs; ok is whether the    *)
(* database serves the query (the await is outside any try).               *)
(***************************************************************************)
GetSubscription(session, ok) ==
    /\ api.pc = "idle"
    /\ LET em == SessionEmail(session)
           m  == FindFirstMatches(subscriptions, em)
           inv(calls, resp) == ApiInvocation("subscription", Null, session, calls, resp)
       IN  IF Falsy(em)
             THEN api' = inv(<<GetServerSession>>, Unauthorized)
           ELSE IF ~ok
             THEN api' = inv(<<GetServerSession, FindFirstCall(em)>>, ApiUnhandled)
           ELSE IF m = {}
             THEN api' = inv(<<GetServerSession, FindFirstCall(em)>>, FreePlan)
           ELSE \E row \in m :
                  api' = inv(<<GetServerSession, FindFirstCall(em)>>, SubscriptionJson(row))
    /\ UNCHANGED <<envOK, subscriptions, nextId, hs, provider, stripeSecret, priceEnv>>
    /\ UNCHANGED checkoutSessions
    /\ UNCHANGED serviceVars

\* the response of the route leaves
ApiRespond ==
    /\ api.pc = "returning"
    /\ api' = IdleApi
    /\ UNCHANGED <<envOK, subscriptions, nextId, hs, provider, stripeSecret, priceEnv>>
    /\ UNCHANGED checkoutSessions
    /\ UNCHANGED serviceVars

InitApi ==
    /\ envOK \in BOOLEAN
    /\ subscriptions = {}
    /\ nextId = 1
    /\ hs = [h \in Handlers |-> IdleHandler]
    /\ provider = [s \in SubIds |-> "none"]
    /\ stripeSecret \in BOOLEAN
    /\ envOK => stripeSecret
    /\ priceEnv \in PriceEnvs
    /\ api = IdleApi
    /\ checkoutSessions = {}
    /\ agents = [k \in AgentKeys |-> NewAgent(k)]
    /\ runs = [c \in Calls |-> IdleCall]
    /\ metrics = NoMetrics
    /\ reply = NoReply

NextApi ==
    \/ \E h \in ApiHandlers, ev \in ApiEvents : Receive(h, "good", ev)
    \/ \E h \in ApiHandlers, ok \in BOOLEAN : FindUserStep(h, ok)
    \/ \E h \in ApiHandlers, ok \in BOOLEAN : UpsertFind(h, ok)
    \/ \E h \in ApiHandlers, ok \in BOOLEAN, now \in Times, created \in Times :
          UpsertWrite(h, ok, now, created)
    \/ \E h \in ApiHandlers, ok \in BOOLEAN : UpdateMany(h, ok)
    \/ \E h \in ApiHandlers : Respond(h)
    \/ \E body \in Bodies, session \in Sessions, providerOK \in BOOLEAN :
          Checkout(body, session, providerOK)
    \/ \E session \in Sessions, ok \in BOOLEAN : GetSubscription(session, ok)
    \/ ApiRespond

SpecApi == InitApi /\ [][NextApi]_vars

(***************************************************************************)
(* The webhook over events of two users that name the same subscription:  *)
(* the checkout of a@b.com for sub_1, a checkout of c@d.com that names     *)
(* sub_1 as well, a checkout of c@d.com for a subscription of their own,   *)
(* and the provider's updates of sub_1.                                    *)
(***************************************************************************)
OwnerEvents ==
    { MkEvent(CHECKOUT, "cus_1", "a@b.com", "sub_1", "pro", NoTime, Null, Null, NoTime),
      MkEvent(CHECKOUT, "cus_2", "c@d.com", "sub_1", "enterprise", NoTime, Null, Null, NoTime),
      MkEvent(CHECKOUT, "cus_2", "c@d.com", "sub_2", "pro", NoTime, Null, Null, NoTime),
      MkEvent(UPDATED, Null, Null, Null, Null, NoTime, "sub_1", "trialing", 2),
      MkEvent(DELETED, Null, Null, Null, Null, NoTime, "sub_1", "canceled", 2) }

NextOwner ==
    \/ \E h \in Handlers, ev \in OwnerEvents : Receive(h, "good", ev)
    \/ \E h \in Handlers, ok \in BOOLEAN : FindUserStep(h, ok)
    \/ \E h \in Handlers, ok \in BOOLEAN : UpsertFind(h, ok)
    \/ \E h \in Handlers, ok \in BOOLEAN, now \in Times, created \in Times :
          UpsertWrite(h, ok, now, created)
    \/ \E h \in Handlers, ok \in BOOLEAN : UpdateMany(h, ok)
    \/ \E h \in Handlers : Respond(h)

SpecOwner == Init /\ [][NextOwner]_vars

(***************************************************************************)
(* End to end: a checkout session opened by the checkout route, paid at    *)
(* the provider, and reported to the webhook.                              *)
(*                                                                         *)
(* checkoutSessions keeps, for each checkout session the provider created, *)
(* the customer_email and the metadata plan of the create call, and what   *)
(* getServerSession had answered in the route (session).  The provider     *)
(* gives the subscription of a paid checkout session an id of its own.     *)
(***************************************************************************)
CheckoutSessionIds == {"cs_1", "cs_2"}

\* the requests of this specification: a recognised plan and one that is
\* rejected; no session, a session without email, and the session of a User
PurchaseBodies == {"pro", "basic"}
PurchaseSessions == {NoSession, Null, "a@b.com"}

SubscriptionOf(cs) == IF cs = "cs_1" THEN "sub_1" ELSE "sub_2"

\* the checkout.session.completed event of the checkout session c: its
\* customer_email and metadata are those of the create call
CompletedEvent(c) ==
    MkEvent(CHECKOUT, "cus_1", c.customer_email, SubscriptionOf(c.id), c.plan, 1,
            Null, Null, NoTime)

\* the events the provider sends later for the subscriptions of paid sessions
FollowingEvents ==
    { MkEvent(UPDATED, Null, Null, Null, Null, NoTime, SubscriptionOf(cs), "trialing", 2) :
        cs \in CheckoutSessionIds }
    \cup { MkEvent(DELETED, Null, Null, Null, Null, NoTime, "sub_1", "canceled", 2) }

\* POST /api/stripe/checkout answered with the url of the checkout session
\* cs, which the provider created for the call
Purchase(cs, body, session) ==
    /\ api.pc = "idle"
    /\ \A c \in checkoutSessions : c.id # cs
    /\ api' = CheckoutPOST(stripeSecret, priceEnv, body, session, TRUE)
    /\ api'.resp = CheckoutUrl
    /\ checkoutSessions' = checkoutSessions \cup
          { [id |-> cs, customer_email |-> api'.calls[2].customer_email,
             plan |-> api'.calls[2].plan, session |-> session] }
    /\ UNCHANGED <<envOK, subscriptions, nextId, hs, provider, stripeSecret, priceEnv>>
    /\ UNCHANGED serviceVars

\* the customer pays the checkout session c and the provider delivers its
\* checkout.session.completed event, signed (also again: a redelivery)
Complete(h, c) ==
    /\ c \in checkoutSessions
    /\ Receive(h, "good", CompletedEvent(c))

NextEndToEnd ==
    \/ \E cs \in CheckoutSessionIds, body \in PurchaseBodies, session \in PurchaseSessions :
          Purchase(cs, body, session)
    \/ ApiRespond
    \/ \E h \in Handlers, c \in checkoutSessions : Complete(h, c)
    \/ \E h \in Handlers, ev \in FollowingEvents : Receive(h, "good", ev)
    \/ \E h \in Handlers, ok \in BOOLEAN : FindUserStep(h, ok)
    \/ \E h \in Handlers, ok \in BOOLEAN : UpsertFind(h, ok)
    \/ \E h \in Handlers, ok \in BOOLEAN, now \in Times, created \in Times :
          UpsertWrite(h, ok, now, created)
    \/ \E h \in Handlers, ok \in BOOLEAN : UpdateMany(h, ok)
    \/ \E h \in Handlers : Respond(h)

SpecEndToEnd == Init /\ [][NextEndToEnd]_vars

(***************************************************************************)
(* runAgent(agentName, input) up to its await: the lookup, and for a       *)
(* registered agent status = running, lastRun = new Date() and the         *)
(* dispatch.  An unregistered name throws inside the try; the catch finds  *)
(* no agent, changes nothing and rethrows.                                 *)
(***************************************************************************)
RunAgentStart(c, agentName, now) ==
    /\ runs[c].pc = "idle"
    /\ IF agentName \notin DOMAIN agents
         THEN /\ runs' = [runs EXCEPT ![c] =
                    [pc |-> "settled", agentName |-> agentName,
                     outcome |-> "rejected", value |-> "not found"]]
              /\ UNCHANGED agents
         ELSE /\ agents' = [agents EXCEPT ![agentName].status = "running",
                                          ![agentName].lastRun = now]
              /\ runs' = [runs EXCEPT ![c] =
                    [pc |-> "dispatched", agentName |-> agentName,
                     outcome |-> Null, value |-> Null]]
    /\ UNCHANGED <<billingVars, metrics, reply>>

(***************************************************************************)
(* runAgent after its await: the agent function resolved (status =         *)
(* completed, result stored, the result returned) or rejected (the catch:  *)
(* status = failed, rethrow).  ok is whether the agent function resolves.  *)
(***************************************************************************)
RunAgentSettle(c, ok) ==
    /\ runs[c].pc = "dispatched"
    /\ LET k == runs[c].agentName
       IN  IF ok \/ ~CanReject(k)
             THEN /\ agents' = [agents EXCEPT ![k].status = "completed",
                                              ![k].result = ResultOf(k)]
                  /\ runs' = [runs EXCEPT ![c] =
                        [pc |-> "settled", agentName |-> k,
                         outcome |-> "resolved", value |-> ResultOf(k)]]
             ELSE /\ agents' = [agents EXCEPT ![k].status = "failed"]
                  /\ runs' = [runs EXCEPT ![c] =
                        [pc |-> "settled", agentName |-> k,
                         outcome |-> "rejected", value |-> "error"]]
    /\ UNCHANGED <<billingVars, metrics, reply>>

\* a service that marks the agent idle again once the caller has the outcome
RunAgentReturnResets(c) ==
    /\ runs[c].pc = "settled"
    /\ runs' = [runs EXCEPT ![c] = IdleCall]
    /\ agents' = IF runs[c].agentName \in DOMAIN agents
                   THEN [agents EXCEPT ![runs[c].agentName].status = "idle"]
                   ELSE agents
    /\ UNCHANGED <<billingVars, metrics, reply>>

\* the caller has the outcome: the route answers { success, data } or 500
RunAgentReturn(c) ==
    /\ runs[c].pc = "settled"
    /\ runs' = [runs EXCEPT ![c] = IdleCall]
    /\ UNCHANGED <<billingVars, agents, metrics, reply>>

NextAgents ==
    \/ \E c \in Calls, agentName \in AgentNames, now \in Times :
          RunAgentStart(c, agentName, now)
    \/ \E c \in Calls, ok \in BOOLEAN : RunAgentSettle(c, ok)
    \/ \E c \in Calls : RunAgentReturn(c)

SpecAgents == Init /\ [][NextAgents]_vars

(***************************************************************************)
(* POST /track with metrics in the body: trackMetrics stores the merged    *)
(* record with lastUpdated = new Date(); the route answers success.        *)
(***************************************************************************)
TrackMetrics(productId, m, now) ==
    /\ metrics' = MapSet(metrics, productId, UpdatedMetrics(metrics, productId, m, now))
    /\ reply' = Reply("track", productId, m, 200, << >>, TRUE, Null)
    /\ UNCHANGED <<billingVars, agents, runs>>

(***************************************************************************)
(* POST /track without metrics in the body: metrics.visitors throws a      *)
(* TypeError before the map is written; the route answers 500.             *)
(***************************************************************************)
TrackMetricsUndefined(productId) ==
    /\ reply' = Reply("track", productId, NoPartial, 500, << >>, FALSE, Null)
    /\ UNCHANGED <<billingVars, agents, runs, metrics>>

(***************************************************************************)
(* GET /analytics/:productId: getProductAnalytics throws for a product     *)
(* without metrics (the route answers 500), else returns the metrics, the  *)
(* recommendations, shouldIterate and iterationReason.                     *)
(***************************************************************************)
GetProductAnalytics(productId) ==
    /\ reply' = IF productId \notin DOMAIN metrics
                  THEN Reply("analytics", productId, NoPartial, 500, << >>, FALSE, Null)
                  ELSE Reply("analytics", productId, NoPartial, 200,
                             AnalyticsChecks(metrics[productId]),
                             ShouldIterate(metrics[productId]),
                             IterationReason(metrics[productId]))
    /\ UNCHANGED <<billingVars, agents, runs, metrics>>

(***************************************************************************)
(* POST /iterate/:productId: triggerIteration rethrows the error of        *)
(* getProductAnalytics (500), answers success false when shouldIterate is  *)
(* false, and success true with the iterationReason in its message else.   *)
(***************************************************************************)
TriggerIteration(productId) ==
    /\ reply' = IF productId \notin DOMAIN metrics
                  THEN Reply("iterate", productId, NoPartial, 500, << >>, FALSE, Null)
                  ELSE IF ~ShouldIterate(metrics[productId])
                  THEN Reply("iterate", productId, NoPartial, 200,
                             AnalyticsChecks(metrics[productId]), FALSE, Null)
                  ELSE Reply("iterate", productId, NoPartial, 200,
                             AnalyticsChecks(metrics[productId]), TRUE,
                             IterationReason(metrics[productId]))
    /\ UNCHANGED <<billingVars, agents, runs, metrics>>

NextFeedback ==
    \/ \E productId \in Products, m \in PartialMetrics, now \in Times :
          TrackMetrics(productId, m, now)
    \/ \E productId \in Products : TrackMetricsUndefined(productId)
    \/ \E productId \in Products : GetProductAnalytics(productId)
    \/ \E productId \in Products : TriggerIteration(productId)

\* the feedback routes read no configuration: one environment is enough
InitFeedback == Init /\ envOK

SpecFeedback == InitFeedback /\ [][NextFeedback]_vars

TypeOK ==
    /\ envOK \in BOOLEAN
    /\ \A h \in Handlers : hs[h].ev \in Events \cup ApiEvents \cup OwnerEvents \cup {NoEvent}
    /\ api.pc \in {"idle", "returning"}
    /\ \A r \in subscriptions : r.status \in {"active", "canceled", "trialing", "unknown"}
(***************************************************************************)
(*                              Claims                                     *)
(***************************************************************************)
CountOf(tbl, sid) == Cardinality(RowsOf(tbl, sid))

\* the invocation in slot l is serving an authenticated event
Authenticated(l) == l.pc # "idle" /\ l.sig = "good" /\ l.ev # NoEvent

\* slot h takes a step
Steps(h) == hs'[h] # hs[h]

(***************************************************************************)
(* C1: in every reachable state, whatever the interleaving of the webhook  *)
(* invocations, the Subscription table holds at most one row per Stripe    *)
(* subscription id.                                                        *)
(***************************************************************************)
C1_OneRowPerSubscriptionId ==
    \A r1, r2 \in subscriptions :
        r1.stripeSubscriptionId = r2.stripeSubscriptionId => r1 = r2

\* two overlapping deliveries of one checkout: both looked the row up before
\* either wrote, one created it and the other's insert was refused
C1_Witness ==
    \E h \in Handlers :
        /\ hs[h].pc = "returning"
        /\ hs[h].fault = "unique"
        /\ CountOf(subscriptions, SubscriptionIdOf(hs[h].ev)) = 1

C3_RedeliveryAddsNoRow ==
    [][ \A h \in Handlers :
          ( /\ Authenticated(hs[h])
            /\ hs[h].ev.type = CHECKOUT
            /\ Steps(h)
            /\ RowsOf(subscriptions, SubscriptionIdOf(hs[h].ev)) # {} )
          => /\ CountOf(subscriptions, SubscriptionIdOf(hs[h].ev)) = 1
             /\ CountOf(subscriptions', SubscriptionIdOf(hs[h].ev)) = 1
             /\ Cardinality(subscriptions') = Cardinality(subscriptions)
      ]_vars

\* the second delivery took the update path of the upsert and wrote the row
\* the first delivery had created
C3_Witness ==
    \E h \in Handlers :
        /\ Authenticated(hs[h])
        /\ hs[h].pc = "returning"
        /\ hs[h].ev.type = CHECKOUT
        /\ hs[h].found
        /\ hs[h].fault = Null
        /\ \E r \in subscriptions :
              /\ r.stripeSubscriptionId = SubscriptionIdOf(hs[h].ev)
              /\ r.stripeCustomerId = hs[h].ev.customer
              /\ r.plan = Coalesce(hs[h].ev.plan, "pro")
              /\ r.status = "active"
        /\ CountOf(subscriptions, SubscriptionIdOf(hs[h].ev)) = 1

(***************************************************************************)
(* C4: a request whose signature header is absent or does not verify       *)
(* never changes the Subscription table and is answered with an error      *)
(* response, not with the acknowledgment.                                  *)
(***************************************************************************)
C4_InvalidSignatureRejected ==
    [][ \A h \in Handlers :
          ( /\ Steps(h)
            /\ \/ (hs[h].pc # "idle" /\ hs[h].sig # "good")
               \/ (hs'[h].pc # "idle" /\ hs'[h].sig # "good") )
          => /\ subscriptions' = subscriptions
             /\ hs'[h].pc # "idle" =>
                   /\ hs'[h].pc = "returning"
                   /\ hs'[h].resp.status >= 400
                   /\ hs'[h].resp # Received
      ]_vars

\* both kinds of invalid request are being answered 400 over a table with rows
C4_Witness ==
    /\ subscriptions # {}
    /\ \E h, g \in Handlers :
          /\ hs[h].pc = "returning" /\ hs[h].sig = Null /\ hs[h].resp = MissingSignature
          /\ hs[g].pc = "returning" /\ hs[g].sig = "bad" /\ hs[g].resp = WebhookError
(***************************************************************************)
(* C5: reconciliation converges.  Once every event the provider emitted    *)
(* has been delivered and its invocation has returned, the status of the   *)
(* row of each subscription id is the status the provider's latest event   *)
(* for that id carries (stated for the events that carry a status).        *)
(***************************************************************************)
C5_Converges ==
    (\A h \in Handlers : hs[h].pc = "idle")
    => \A s \in SubIds :
          provider[s] \notin {"none", "unknown"} =>
              \A r \in RowsOf(subscriptions, s) : r.status = provider[s]

C7_IncompleteCheckoutIgnored ==
    [][ \A h \in Handlers :
          ( /\ Authenticated(hs[h])
            /\ hs[h].ev.type = CHECKOUT
            /\ (Falsy(hs[h].ev.customer_email) \/ Falsy(hs[h].ev.subscription))
            /\ Steps(h) )
          => /\ subscriptions' = subscriptions
             /\ (hs'[h].pc = "returning" /\ hs'[h].fault = Null) => hs'[h].resp = Received
      ]_vars

(***************************************************************************)
(* The event of the example: customer_email, subscription and              *)
(* metadata.plan, no other field; and the same event with a customer id.   *)
(***************************************************************************)
ExampleEvent ==
    MkEvent(CHECKOUT, Null, "a@b.com", "sub_1", "pro", NoTime, Null, Null, NoTime)

ExampleEventWithCustomer ==
    MkEvent(CHECKOUT, "cus_1", "a@b.com", "sub_1", "pro", NoTime, Null, Null, NoTime)

ExampleRow(r) ==
    r.plan = "pro" /\ r.status = "active" /\ r.stripeSubscriptionId = "sub_1"

C9_Original ==
    \A r \in subscriptions : r.status \in {"active", "canceled", "unknown"}

(***************************************************************************)
(* C9 amended: the status follows none (no row) -> active -> any status.   *)
(* A row is always created with status active, by a checkout-completed     *)
(* event; afterwards its status changes only in a step that processes an   *)
(* event for the row's subscription id, to active when the event is        *)
(* checkout-completed and to the status string the event carries when it   *)
(* is subscription-updated or subscription-deleted: any status of the      *)
(* provider (trialing, for one), or unknown when it carries none.          *)
(***************************************************************************)
C9_Amended ==
    [][ \A n \in subscriptions' :
          LET old == { r \in subscriptions : r.id = n.id }
          IN  IF old = {}
                THEN /\ n.status = "active"
                     /\ \E h \in Handlers :
                           /\ hs[h].pc = "upsertWrite" /\ hs'[h].pc = "returning"
                           /\ hs[h].ev.type = CHECKOUT
                           /\ n.stripeSubscriptionId = Coalesce(hs[h].ev.subscription, "")
                ELSE \A r \in old :
                       n.status # r.status =>
                         \E h \in Handlers :
                           /\ Authenticated(hs[h])
                           /\ hs'[h].pc = "returning"
                           /\ \/ /\ hs[h].pc = "upsertWrite"
                                 /\ hs[h].ev.type = CHECKOUT
                                 /\ r.stripeSubscriptionId = Coalesce(hs[h].ev.subscription, "")
                                 /\ n.status = "active"
                              \/ /\ hs[h].pc = "updateMany"
                                 /\ hs[h].ev.type \in {UPDATED, DELETED}
                                 /\ r.stripeSubscriptionId = hs[h].ev.id
                                 /\ n.status = Coalesce(hs[h].ev.status, "unknown")
      ]_vars

\* a row has a status outside active, canceled, unknown, while the row of
\* another id, which no update has reached, is active as created
C9_Witness ==
    /\ \E r \in subscriptions : r.status = "trialing"
    /\ \E r \in subscriptions : r.stripeSubscriptionId = "" /\ r.status = "active"

(***************************************************************************)
(* C10: an authenticated subscription-deleted event whose id matches no    *)
(* row updates no row and creates none, the absence of a row raises no     *)
(* error, and the event is acknowledged.                                   *)
(***************************************************************************)
C10_DeleteWithoutRow ==
    [][ \A h \in Handlers :
          ( /\ Authenticated(hs[h])
            /\ hs[h].ev.type = DELETED
            /\ hs[h].pc = "updateMany"
            /\ RowsOf(subscriptions, hs[h].ev.id) = {}
            /\ Steps(h) )
          => /\ subscriptions' = subscriptions
             /\ hs'[h].pc = "returning"
             /\ hs'[h].fault \in {Null, "updateMany"}
             /\ hs'[h].fault = Null => hs'[h].resp = Received
      ]_vars

\* the delete of an id without a row is being acknowledged, the table as it was
C10_Witness ==
    \E h \in Handlers :
        /\ Authenticated(hs[h])
        /\ hs[h].ev.type = DELETED
        /\ hs[h].pc = "returning"
        /\ hs[h].fault = Null
        /\ hs[h].resp = Received
        /\ RowsOf(subscriptions, hs[h].ev.id) = {}
        /\ subscriptions # {}

(***************************************************************************)
(* C11: checkout creation with a plan name that is not a recognised plan   *)
(* (any other string, a name of an inherited object property, or a         *)
(* recognised plan whose price id is not configured) returns an error      *)
(* response and makes no external call: neither the session lookup nor the *)
(* provider's create-checkout-session call.                                *)
(***************************************************************************)
C11_UnrecognisedPlanNoExternalCall ==
    ( /\ api.pc = "returning"
      /\ api.route = "checkout"
      /\ api.body # MalformedBody
      /\ (api.body \notin {"pro", "enterprise"} \/ api.body \notin priceEnv) )
    => /\ api.resp.error # Null
       /\ api.resp.status >= 400
       /\ api.calls = <<>>

(***************************************************************************)
(* C12: the Subscription table is mutated only by the webhook handler: a   *)
(* step that changes the table is a storage write of a webhook invocation, *)
(* and every step of the checkout route and of the subscription route      *)
(* leaves every row as it was, whatever the request and the outcome.       *)
(***************************************************************************)
C12_OnlyWebhookMutates ==
    [][ /\ subscriptions' # subscriptions =>
              /\ api' = api
              /\ \E h \in Handlers :
                    /\ Steps(h)
                    /\ hs[h].pc \in {"upsertWrite", "updateMany"}
        /\ api' # api => subscriptions' = subscriptions /\ nextId' = nextId
      ]_vars

\* over a table with rows the checkout route has returned the url of a
\* checkout session it created
C12_Witness ==
    /\ subscriptions # {}
    /\ api.pc = "returning"
    /\ api.route = "checkout"
    /\ api.resp = CheckoutUrl
    /\ Len(api.calls) = 2

C14_UnknownUserIgnored ==
    [][ \A h \in Handlers :
          ( /\ Authenticated(hs[h])
            /\ hs[h].ev.type = CHECKOUT
            /\ ~ \E u \in UserTable : u.email = hs[h].ev.customer_email
            /\ Steps(h) )
          => /\ subscriptions' = subscriptions
             /\ nextId' = nextId
             /\ hs'[h].pc \in {"returning", "idle"}
             /\ (hs'[h].pc = "returning" /\ hs'[h].fault = Null) => hs'[h].resp = Received
      ]_vars

\* the lookup of such an event found no User and POST is returning the
\* acknowledgment, over a table with rows
C14_Witness ==
    \E h \in Handlers :
        /\ Authenticated(hs[h])
        /\ hs[h].pc = "returning"
        /\ hs[h].ev.type = CHECKOUT
        /\ hs[h].ev.customer = "cus_1"
        /\ hs[h].ev.customer_email = "x@y.com"
        /\ hs[h].fault = Null
        /\ hs[h].resp = Received
        /\ subscriptions # {}

(***************************************************************************)
(* C15: processing an authenticated subscription-updated or -deleted event *)
(* sets, on every row whose subscription id equals the event's id, status  *)
(* to the event's status (unknown when it has none) and the period end to  *)
(* the event's item-level period end in milliseconds (the epoch when it is *)
(* absent), and leaves every other row and every other field as it was.    *)
(***************************************************************************)
C15_UpdateSetsStatusAndPeriodEnd ==
    [][ \A h \in Handlers :
          ( /\ Authenticated(hs[h])
            /\ hs[h].ev.type \in {UPDATED, DELETED}
            /\ hs[h].pc = "updateMany"
            /\ hs'[h].pc = "returning"
            /\ hs'[h].fault = Null )
          => subscriptions' =
               { IF r.stripeSubscriptionId = hs[h].ev.id
                   THEN [r EXCEPT !.status = Coalesce(hs[h].ev.status, "unknown"),
                                  !.currentPeriodEnd =
                                      IF hs[h].ev.period_end = NoTime
                                        THEN 0
                                        ELSE hs[h].ev.period_end * 1000]
                   ELSE r : r \in subscriptions }
      ]_vars

\* an update without a status and with a period end has been applied to the
\* row of its id
C15_Witness ==
    \E h \in Handlers :
        /\ Authenticated(hs[h])
        /\ hs[h].pc = "returning"
        /\ hs[h].ev.type = UPDATED
        /\ hs[h].ev.status = Null
        /\ hs[h].ev.period_end = 2
        /\ hs[h].fault = Null
        /\ \E r \in subscriptions :
              /\ r.stripeSubscriptionId = hs[h].ev.id
              /\ r.status = "unknown"
              /\ r.currentPeriodEnd = 2000

(***************************************************************************)
(* C16: an authenticated event of a type other than checkout completed,    *)
(* subscription updated and subscription deleted is acknowledged at once,  *)
(* without a storage call, and no step of its handler changes the          *)
(* Subscription table (the User table is never written).                   *)
(***************************************************************************)
C16_OtherEventAcknowledged ==
    [][ \A h \in Handlers :
          /\ ( /\ hs[h].pc = "idle"
               /\ hs'[h].pc # "idle"
               /\ hs'[h].sig = "good"
               /\ hs'[h].ev # NoEvent
               /\ hs'[h].ev.type \notin {CHECKOUT, UPDATED, DELETED} )
             => /\ hs'[h].pc = "returning"
                /\ hs'[h].resp = Received
                /\ hs'[h].fault = Null
                /\ subscriptions' = subscriptions
                /\ nextId' = nextId
          /\ ( /\ Authenticated(hs[h])
               /\ hs[h].ev.type \notin {CHECKOUT, UPDATED, DELETED}
               /\ Steps(h) )
             => /\ subscriptions' = subscriptions
                /\ nextId' = nextId
                /\ hs'[h].pc = "idle"
      ]_vars

\* an event of another type is being acknowledged over a table with rows
C16_Witness ==
    \E h \in Handlers :
        /\ Authenticated(hs[h])
        /\ hs[h].pc = "returning"
        /\ hs[h].ev.type = UNHANDLED_TYPE
        /\ hs[h].resp = Received
        /\ subscriptions # {}

\* the rows owned by the User whose email is em
OwnRows(tbl, em) == { r \in tbl : \E u \in UserTable : u.email = em /\ u.id = r.userId }

\* the subscription route takes its step for the session s
ReadsFor(s) ==
    /\ api.pc = "idle"
    /\ api'.pc = "returning"
    /\ api'.route = "subscription"
    /\ api'.session = s

(***************************************************************************)
(* C17: the subscription read endpoint discloses nothing without an        *)
(* authenticated session and nothing about other users.  With no session,  *)
(* or a session without email, it answers 401 and issues no query.  For a  *)
(* session with an email its query names that email only, and its response *)
(* is one the rows owned by the User with that email determine: free/none  *)
(* when none of them is active or trialing, the plan, status and period    *)
(* end of one of those otherwise (or an error when the query fails),       *)
(* whatever rows other users own.                                          *)
(***************************************************************************)
C17_ReadDisclosesOwnRowsOnly ==
    [][ \A s \in Sessions :
          ReadsFor(s) =>
            IF Falsy(SessionEmail(s))
              THEN /\ api'.resp = Unauthorized
                   /\ \A i \in 1..Len(api'.calls) : api'.calls[i] = GetServerSession
              ELSE LET own  == OwnRows(subscriptions, SessionEmail(s))
                       live == { r \in own : r.status \in {"active", "trialing"} }
                   IN  /\ \A i \in 1..Len(api'.calls) :
                             api'.calls[i] \in {GetServerSession, FindFirstCall(SessionEmail(s))}
                       /\ api'.resp \in
                            {ApiUnhandled} \cup
                            (IF live = {} THEN {FreePlan}
                                          ELSE { SubscriptionJson(r) : r \in live })
      ]_vars

\* the user c@d.com reads their own plan while the other user owns an active
\* row with another plan
C17_Witness ==
    /\ api.pc = "returning"
    /\ api.route = "subscription"
    /\ api.session = "c@d.com"
    /\ api.resp.plan = "pro"
    /\ \E r \in OwnRows(subscriptions, "a@b.com") :
          r.plan = "enterprise" /\ r.status = "active"
    /\ \A r \in OwnRows(subscriptions, "a@b.com") : r.plan # "pro"

(***************************************************************************)
(* C18 as claimed: for an authenticated user the read endpoint, when its   *)
(* query is served, returns free/none when the user owns no Subscription   *)
(* row, and otherwise the plan, status and period end of one of the user's *)
(* rows.                                                                   *)
(***************************************************************************)
C18_Original ==
    [][ \A s \in Sessions :
          (ReadsFor(s) /\ ~Falsy(SessionEmail(s)) /\ api'.resp # ApiUnhandled)
          => LET own == OwnRows(subscriptions, SessionEmail(s))
             IN  IF own = {}
                   THEN api'.resp = FreePlan
                   ELSE api'.resp \in { SubscriptionJson(r) : r \in own }
      ]_vars

(***************************************************************************)
(* C18 amended: for an authenticated user the read endpoint, when its      *)
(* query is served, returns free/none when the user owns no row whose      *)
(* status is active or trialing (so also when the user owns only canceled  *)
(* or unknown rows), and otherwise the plan, status and period end of one  *)
(* of the user's active or trialing rows.                                  *)
(***************************************************************************)
C18_Amended ==
    [][ \A s \in Sessions :
          (ReadsFor(s) /\ ~Falsy(SessionEmail(s)) /\ api'.resp # ApiUnhandled)
          => LET live == { r \in OwnRows(subscriptions, SessionEmail(s)) :
                             r.status \in {"active", "trialing"} }
             IN  IF live = {}
                   THEN api'.resp = FreePlan
                   ELSE api'.resp \in { SubscriptionJson(r) : r \in live }
      ]_vars

\* a user whose only row is canceled is told free/none
C18_Witness ==
    /\ api.pc = "returning"
    /\ api.route = "subscription"
    /\ api.session = "a@b.com"
    /\ api.resp = FreePlan
    /\ OwnRows(subscriptions, "a@b.com") # {}
    /\ \A r \in OwnRows(subscriptions, "a@b.com") : r.status = "canceled"

(***************************************************************************)
(* C19: in every reachable state each User owns at most one Subscription   *)
(* row whose status is active or trialing, so that the row the read        *)
(* endpoint's findFirst picks is determined by the table.                  *)
(***************************************************************************)
C19_OneLiveRowPerUser ==
    \A u \in UserTable :
        Cardinality({ r \in subscriptions :
                        r.userId = u.id /\ r.status \in {"active", "trialing"} }) <= 1

(***************************************************************************)
(* C20: checkout creation with a recognised plan (its price configured,    *)
(* the secret key set) is accepted with and without a session: the session *)
(* is looked up, then the provider is asked once for a checkout session of *)
(* the plan's price, with the customer email if and only if the session    *)
(* has one (and then that email); the response is either the url (200) or  *)
(* an error (500), never both and never neither.                           *)
(***************************************************************************)
C20_CheckoutPassesSessionEmail ==
    ( /\ api.pc = "returning"
      /\ api.route = "checkout"
      /\ api.body \in {"pro", "enterprise"}
      /\ api.body \in priceEnv
      /\ stripeSecret )
    => /\ Len(api.calls) = 2
       /\ api.calls[1] = GetServerSession
       /\ api.calls[2].fn = "stripe.checkout.sessions.create"
       /\ api.calls[2].price = PriceIdOf(api.body)
       /\ api.calls[2].plan = api.body
       /\ api.calls[2].customer_email =
             (IF api.session \in {NoSession, Null, ""} THEN Null ELSE api.session)
       /\ \/ api.resp.status = 200 /\ api.resp.url # Null /\ api.resp.error = Null
          \/ api.resp.status = 500 /\ api.resp.url = Null /\ api.resp.error # Null

\* a checkout without a session came back with the url, and the provider
\* was given no customer email
C20_Witness ==
    /\ api.pc = "returning"
    /\ api.route = "checkout"
    /\ api.body = "enterprise"
    /\ api.session = NoSession
    /\ api.resp = CheckoutUrl
    /\ api.calls[2].customer_email = Null

C22_RowsOnlyGrowThroughCheckout ==
    [][ /\ \A r \in subscriptions :
              \E n \in subscriptions' :
                  n.id = r.id /\ n.stripeSubscriptionId = r.stripeSubscriptionId
        /\ \A n \in subscriptions' :
              (~ \E r \in subscriptions : r.id = n.id)
              => \E h \in Handlers :
                    /\ Authenticated(hs[h])
                    /\ hs[h].pc = "upsertWrite"
                    /\ hs'[h].pc = "returning"
                    /\ hs[h].ev.type = CHECKOUT
                    /\ hs[h].ev.subscription = n.stripeSubscriptionId
                    /\ \E u \in UserTable : u.email = hs[h].ev.customer_email
      ]_vars

\* the subscription id the event ev is about
EventSid(ev) == IF ev.type = CHECKOUT THEN Coalesce(ev.subscription, "") ELSE ev.id

(***************************************************************************)
(* C23: ownership of a row is fixed at creation.  No step changes the      *)
(* userId, the stripeCustomerId, the createdAt or the subscription id of   *)
(* an existing row, also not the upsert of a checkout-completed event      *)
(* whose email resolves to another User or that carries another customer   *)
(* id; the step of a subscription-updated or -deleted event leaves plan    *)
(* unchanged as well; and the step of an event leaves every row with       *)
(* another subscription id as it was.                                      *)
(***************************************************************************)
C23_OwnershipFixedAtCreation ==
    [][ /\ \A r \in subscriptions :
              \E n \in subscriptions' :
                  /\ n.id = r.id
                  /\ n.userId = r.userId
                  /\ n.stripeCustomerId = r.stripeCustomerId
                  /\ n.createdAt = r.createdAt
                  /\ n.stripeSubscriptionId = r.stripeSubscriptionId
        /\ \A h \in Handlers :
              (Authenticated(hs[h]) /\ Steps(h))
              => /\ \A r \in subscriptions :
                       r.stripeSubscriptionId # EventSid(hs[h].ev) => r \in subscriptions'
                 /\ hs[h].ev.type \in {UPDATED, DELETED}
                       => \A r \in subscriptions :
                             \E n \in subscriptions' : n.id = r.id /\ n.plan = r.plan
      ]_vars

\* the checkout of c@d.com that names the subscription of a@b.com took the
\* update path: the row has its plan and still the owner and customer id
\* of its creation
C23_Witness ==
    \E h \in Handlers :
        /\ Authenticated(hs[h])
        /\ hs[h].pc = "returning"
        /\ hs[h].ev.type = CHECKOUT
        /\ hs[h].ev.customer_email = "c@d.com"
        /\ hs[h].ev.customer = "cus_2"
        /\ hs[h].ev.subscription = "sub_1"
        /\ hs[h].found
        /\ hs[h].fault = Null
        /\ \E r \in RowsOf(subscriptions, "sub_1") :
              /\ r.userId = "u1"
              /\ r.stripeCustomerId = "cus_1"
              /\ r.plan = "enterprise"

(***************************************************************************)
(* C24: canceled is not absorbing.  When the upsert of a checkout-         *)
(* completed event is served for an identifier whose row a subscription-   *)
(* deleted event has set to canceled, the row is active again; a           *)
(* subscription-deleted event that is served sets the rows of its          *)
(* identifier to the status it carries and, when there is none, changes    *)
(* nothing; and a row that is created is created active.                   *)
(***************************************************************************)
C24_CanceledNotAbsorbing ==
    [][ \A h \in Handlers :
          (Authenticated(hs[h]) /\ hs'[h].pc = "returning" /\ hs'[h].fault = Null)
          => /\ (hs[h].ev.type = CHECKOUT /\ hs[h].pc = "upsertWrite")
                  => \A r \in RowsOf(subscriptions, EventSid(hs[h].ev)) :
                        \E n \in subscriptions' : n.id = r.id /\ n.status = "active"
             /\ (hs[h].ev.type = CHECKOUT /\ hs[h].pc = "upsertWrite")
                  => \A n \in subscriptions' :
                        (~ \E r \in subscriptions : r.id = n.id) => n.status = "active"
             /\ (hs[h].ev.type = DELETED /\ hs[h].pc = "updateMany")
                  => IF RowsOf(subscriptions, hs[h].ev.id) = {}
                       THEN subscriptions' = subscriptions
                       ELSE \A n \in RowsOf(subscriptions', hs[h].ev.id) :
                               n.status = Coalesce(hs[h].ev.status, "unknown")
      ]_vars

\* a subscription-deleted event has set the row of sub_1 to canceled, and a
\* delivery of the checkout of sub_1 has found the row and is at its write
C24_Witness ==
    /\ \E r \in RowsOf(subscriptions, "sub_1") :
          r.status = "canceled" /\ r.currentPeriodEnd = 2000
    /\ \E h \in Handlers :
          /\ Authenticated(hs[h])
          /\ hs[h].ev.type = CHECKOUT
          /\ hs[h].ev.subscription = "sub_1"
          /\ hs[h].pc = "upsertWrite"
          /\ hs[h].found

(***************************************************************************)
(* C25: end to end, a checkout session created without an authenticated    *)
(* session (no session, or a session without email) never results in a     *)
(* Subscription row.  Its create call carries no customer email, so its    *)
(* checkout-completed event carries none and the webhook answers it at the *)
(* guard, without a storage call; and no row has the identifier of its     *)
(* subscription, whatever events follow for that subscription.             *)
(***************************************************************************)
C25_GuestCheckoutLeavesNoRow ==
    \A c \in checkoutSessions :
        Falsy(SessionEmail(c.session))
        => /\ c.customer_email = Null
           /\ RowsOf(subscriptions, SubscriptionOf(c.id)) = {}
           /\ \A h \in Handlers :
                 (hs[h].ev.type = CHECKOUT /\ hs[h].ev.subscription = SubscriptionOf(c.id))
                 => hs[h].pc = "returning" /\ hs[h].resp = Received /\ hs[h].fault = Null

\* the completed event of a checkout without session is being acknowledged
\* and an update of its subscription has been served, and there is no row
\* for it, while the checkout of a signed-in user has its row
C25_Witness ==
    \E c, d \in checkoutSessions :
        /\ c.session = NoSession
        /\ d.session = "a@b.com"
        /\ RowsOf(subscriptions, SubscriptionOf(c.id)) = {}
        /\ RowsOf(subscriptions, SubscriptionOf(d.id)) # {}
        /\ \E h, g \in Handlers :
              /\ hs[h].pc = "returning"
              /\ hs[h].ev = CompletedEvent(c)
              /\ hs[h].resp = Received
              /\ hs[g].pc = "returning"
              /\ hs[g].ev.type = UPDATED
              /\ hs[g].ev.id = SubscriptionOf(c.id)
              /\ hs[g].fault = Null

(***************************************************************************)
(* C26: the status lifecycle of AgentService.  Each of the four registered *)
(* agents starts idle.  runAgent on a registered agent sets status running *)
(* and lastRun before the dispatch and leaves the other agents alone; when *)
(* the run resolves it sets status completed and stores the result, when   *)
(* it rejects it sets status failed.  No step returns a status to idle or  *)
(* changes the set of registered names, and runAgent with an unregistered  *)
(* name rejects without changing any agent record.                         *)
(***************************************************************************)
C26_AgentLifecycle ==
    /\ DOMAIN agents = {"ideaSpider", "productGenerator", "seoBot", "listingBot"}
    /\ \A k \in DOMAIN agents : agents[k].status = "idle"
    /\ [][ /\ DOMAIN agents' = DOMAIN agents
           /\ \A k \in DOMAIN agents :
                 agents'[k].status = "idle" => agents[k].status = "idle"
           /\ \A c \in Calls :
                 /\ (runs[c].pc = "idle" /\ runs'[c].pc = "dispatched")
                      => LET k == runs'[c].agentName
                         IN  /\ k \in DOMAIN agents
                             /\ agents'[k].status = "running"
                             /\ agents'[k].lastRun \in Times
                             /\ agents'[k].result = agents[k].result
                             /\ \A j \in DOMAIN agents \ {k} : agents'[j] = agents[j]
                 /\ (runs[c].pc = "idle" /\ runs'[c].pc = "settled")
                      => /\ runs'[c].agentName \notin DOMAIN agents
                         /\ runs'[c].outcome = "rejected"
                         /\ agents' = agents
                 /\ (runs[c].pc = "dispatched" /\ runs'[c].pc = "settled")
                      => LET k == runs[c].agentName
                         IN  /\ \A j \in DOMAIN agents \ {k} : agents'[j] = agents[j]
                             /\ agents'[k].lastRun = agents[k].lastRun
                             /\ IF runs'[c].outcome = "resolved"
                                  THEN /\ agents'[k].status = "completed"
                                       /\ agents'[k].result = runs'[c].value
                                       /\ runs'[c].value # Null
                                  ELSE /\ runs'[c].outcome = "rejected"
                                       /\ agents'[k].status = "failed"
                                       /\ agents'[k].result = agents[k].result
         ]_vars

\* a run of an unregistered name has been rejected, a run has failed, a run
\* has completed with its result stored, and an agent never run is idle
C26_Witness ==
    /\ \E c \in Calls :
          /\ runs[c].pc = "settled"
          /\ runs[c].agentName = "unknownBot"
          /\ runs[c].outcome = "rejected"
    /\ agents["ideaSpider"].status = "failed"
    /\ agents["seoBot"].status = "completed"
    /\ agents["seoBot"].result = "SEO content generated"
    /\ agents["listingBot"].status = "idle"
    /\ agents["listingBot"].lastRun = NoTime

(***************************************************************************)
(* C27: for overlapping runAgent calls on the same agent, whenever at      *)
(* least one call has started and not yet settled, getAgentStatus reports  *)
(* the agent's status as running.                                          *)
(***************************************************************************)
C27_RunningWhileInFlight ==
    \A k \in AgentNames :
        (\E c \in Calls : runs[c].pc = "dispatched" /\ runs[c].agentName = k)
        => GetAgentStatus(agents, k).status = "running"

(***************************************************************************)
(* C28: trackMetrics(p, m) merges per field.  After the call each of       *)
(* visitors, conversions, revenue and churnRate of product p is the value  *)
(* m supplies for it, whatever that value is (0 included), else the value  *)
(* stored before the call, else 0; the metrics of every other product are  *)
(* unchanged.                                                              *)
(***************************************************************************)
C28_TrackMergesPerField ==
    [][ (reply'.op = "track" /\ reply'.status = 200)
        => LET p == reply'.productId
               m == reply'.input
           IN  /\ p \in DOMAIN metrics'
               /\ \A f \in MetricFields :
                     metrics'[p][f] =
                         IF m[f] # Absent THEN m[f]
                         ELSE IF p \in DOMAIN metrics THEN metrics[p][f]
                         ELSE 0
               /\ \A q \in Products \ {p} :
                     /\ q \in DOMAIN metrics' <=> q \in DOMAIN metrics
                     /\ q \in DOMAIN metrics => metrics'[q] = metrics[q]
      ]_vars

(***************************************************************************)
(* C29: getProductAnalytics(p) and triggerIteration(p) never modify the    *)
(* stored metrics.  For a product that was never tracked both fail (HTTP   *)
(* 500).  For a tracked product triggerIteration reports success exactly   *)
(* when conversions < 10 or churnRate > 0.1 or revenue < 100, which is     *)
(* when the recommendations are not empty, and the reason is the last      *)
(* breached threshold in the order conversions, churn, revenue.            *)
(***************************************************************************)
C29_AnalyticsReadOnly ==
    [][ reply'.op \in {"analytics", "iterate"}
        => LET p == reply'.productId
           IN  /\ metrics' = metrics
               /\ p \notin DOMAIN metrics
                    => reply'.status = 500 /\ ~reply'.success
               /\ p \in DOMAIN metrics
                    => LET pm == metrics[p]
                       IN  /\ reply'.status = 200
                           /\ reply'.success <=> \/ pm.conversions < 10
                                                 \/ pm.churnRate > 10
                                                 \/ pm.revenue < 100
                           /\ reply'.success <=> reply'.recommendations # << >>
                           /\ reply'.success
                                => reply'.reason =
                                      IF pm.revenue < 100 THEN "Low revenue"
                                      ELSE IF pm.churnRate > 10 THEN "High churn"
                                      ELSE "Low conversions"
      ]_vars

\* an iteration was triggered for a tracked product whose conversions and
\* churn breach their thresholds and whose revenue does not
C29_Witness ==
    /\ reply.op = "iterate"
    /\ reply.status = 200
    /\ reply.productId \in DOMAIN metrics
    /\ metrics[reply.productId].conversions = 0
    /\ metrics[reply.productId].churnRate = 11
    /\ metrics[reply.productId].revenue = 100
    /\ reply.success
    /\ reply.reason = "High churn"
    /\ Len(reply.recommendations) = 2
====
